---- MODULE Spec2Model ----
(***************************************************************************)
(* Model of the CEAT frame scheduler of src/program/ceat.py: the frame     *)
(* driver Scheduler.ceat and the cluster constructor                       *)
(* Scheduler.construct_clusters with its helpers; and of the intra-cluster *)
(* scheduler Scheduler.construct_schedule of src/program/process.py.       *)
(*                                                                         *)
(* Tasks are identified by their position in the task list (the source     *)
(* compares Task objects by identity), cores by their core_id 0..C-1.      *)
(* The source computes utilizations, shares and capacities in floating     *)
(* point; the model computes the same expressions exactly, as normalised   *)
(* fractions [n, d] with d > 0.                                            *)
(***************************************************************************)
EXTENDS Integers, Sequences, FiniteSets, TLC

VARIABLES
    tasks,                  \* the task list: [exec, period, rates]
    remaining_period,       \* Task.remaining_period, per task
    time,                   \* local `time` of Scheduler.ceat
    frame_length,           \* frame_length of the current frame
    tasks_allocated,        \* list of allocated tasks (construct_clusters)
    cores_allocated,        \* list of allocated cores (construct_clusters)
    clusters,               \* set of Cluster objects (construct_clusters)
    tasks_cores_considered, \* task -> set of cores considered for it
    ret,                    \* (task, first_core) chosen at line 225, or None
    pc,                     \* position of the program
    first_run,              \* outcome of an earlier execution on the same input
    rem_cap,                \* remaining capacity of the cores (construct_schedule)
    unvisited,              \* clusters the loop of line 213 has yet to visit
    schedule_cluster,       \* `cluster` of the loop of line 213, or None
    tasks_sorted,           \* tasks of the cluster not yet taken by a pass
    assigned,               \* the (task, core id) pairs taken by the passes
    iterations              \* times the loop of line 224 has entered its body

schedule_vars == <<rem_cap, unvisited, schedule_cluster, tasks_sorted,
                   assigned>>

vars == <<tasks, remaining_period, time, frame_length, tasks_allocated,
          cores_allocated, clusters, tasks_cores_considered, ret, pc,
          first_run, rem_cap, unvisited, schedule_cluster, tasks_sorted,
          assigned, iterations>>

----------------------------------------------------------------------------
(* Program constants and bounds of the model *)

\* ceat.py line 8
TOTAL_TIME == 10000

\* the additive slack of the acceptance test, ceat.py line 268
Tolerance == 100

\* longest task list drawn from the full product of the choices below
MaxTasks == 2

CoreCounts == {2, 3, 4}

\* with period 1 and rates 1 or 2: utilizations 1, 1/2, 150 and 75
ExecChoices == {1, 150}

PeriodChoices == {1}

RateChoices == {1, 2}

FrameChoices == {1, 10}

None == <<>>

----------------------------------------------------------------------------
(* Exact arithmetic on fractions *)

Abs(x) == IF x < 0 THEN -x ELSE x

RECURSIVE GCD(_, _)
GCD(a, b) == IF b = 0 THEN a ELSE GCD(b, a % b)

LCM(a, b) == (a \div GCD(a, b)) * b

Frac(n, d) ==
    LET g == GCD(Abs(n), d)
    IN  [n |-> n \div g, d |-> d \div g]

FromInt(i) == [n |-> i, d |-> 1]

FracAdd(x, y) ==
    LET l == LCM(x.d, y.d)
    IN  Frac(x.n * (l \div x.d) + y.n * (l \div y.d), l)

FracSub(x, y) ==
    LET l == LCM(x.d, y.d)
    IN  Frac(x.n * (l \div x.d) - y.n * (l \div y.d), l)

FracHalf(x) == Frac(x.n, 2 * x.d)

FracLess(x, y) ==
    LET l == LCM(x.d, y.d)
    IN  x.n * (l \div x.d) < y.n * (l \div y.d)

FracLeq(x, y) == ~FracLess(y, x)

----------------------------------------------------------------------------
(* class Task *)

core_count(task) == Len(task.rates)

get_utilization(task, core) ==
    Frac(task.exec, task.period * task.rates[core + 1])

get_share(task, core, fl) ==
    Frac(task.exec * fl, task.period * task.rates[core + 1])

get_utilizations(task) ==
    [i \in 1..core_count(task) |-> get_utilization(task, i - 1)]

\* min() of a non-empty list of fractions
FracMin(list) ==
    LET m[k \in 1..Len(list)] ==
            IF k = 1 THEN list[1]
            ELSE CHOOSE r \in {IF FracLess(list[k], prev) THEN list[k]
                                                          ELSE prev :
                               prev \in {m[k - 1]}} : TRUE
    IN  m[Len(list)]

----------------------------------------------------------------------------
(* class Cluster *)

ClusterInitOk(first_core, second_core) == first_core # second_core

\* the constructor without the ordering of lines 54-59
NewClusterUnordered(first_core, second_core) ==
    [first_core      |-> first_core,
     second_core     |-> second_core,
     tasks_allocated |-> {},
     spare_capacity  |-> None]

NewCluster(first_core, second_core) ==
    [first_core      |-> IF first_core < second_core
                         THEN first_core ELSE second_core,
     second_core     |-> IF first_core < second_core
                         THEN second_core ELSE first_core,
     tasks_allocated |-> {},
     spare_capacity  |-> None]

ClusterEq(c, o) ==
    \/ c.first_core = o.first_core /\ c.second_core = o.second_core
    \/ c.second_core = o.first_core /\ c.first_core = o.second_core

ClusterContains(c, core) == c.first_core = core \/ c.second_core = core

\* __hash__: the hash of the pair of core ids; equal pairs hash equally
ClusterHash(c) == <<c.first_core, c.second_core>>

set_spare_capacity(c, spare_capacity) ==
    [c EXCEPT !.spare_capacity = spare_capacity]

\* set.add on a set of Cluster objects: an equal element is not added again
ClustersAdd(cs, c) ==
    IF \E o \in cs : ClusterEq(c, o) THEN cs ELSE cs \cup {c}

----------------------------------------------------------------------------
(* class Scheduler: helpers *)

InList(x, list) == \E i \in 1..Len(list) : list[i] = x

\* The order in which task_with_lowest_share visits (task, core): tasks in
\* list order, the cores of a task by ascending core_id.
RECURSIVE ScanOrderFrom(_, _)
ScanOrderFrom(ts, t) ==
    IF t > Len(ts) THEN <<>>
    ELSE [i \in 1..core_count(ts[t]) |-> <<t, i - 1>>]
             \o ScanOrderFrom(ts, t + 1)

\* line 135 with <= for <: the last of several equal pairs wins
IsLowerOrEqual(ts, task, core, prev) ==
    \/ prev = None
    \/ FracLeq(get_utilization(ts[task], core),
               get_utilization(ts[prev[1]], prev[2]))

\* line 135, with (task_lowest, core_lowest) = prev
IsLower(ts, task, core, prev) ==
    \/ prev = None
    \/ FracLess(get_utilization(ts[task], core),
                get_utilization(ts[prev[1]], prev[2]))

\* lowest[k] is (task_lowest, core_lowest) after the first k visits, or None
task_with_lowest_share(ts, allocated, considered) ==
    LET order == ScanOrderFrom(ts, 1)
        lowest[k \in 0..Len(order)] ==
            IF k = 0 THEN None
            ELSE LET task == order[k][1]
                     core == order[k][2]
                 IN  CHOOSE r \in
                         {IF InList(task, allocated)
                             \/ core \in considered[task]
                          THEN prev
                          ELSE IF IsLower(ts, task, core, prev)
                               THEN order[k] ELSE prev :
                          prev \in {lowest[k - 1]}} : TRUE
    IN  lowest[Len(order)]

\* line 164, with min_core = prev
IsSecondLowest(task, requirement, lowest_value, prev) ==
    \/ prev = None
    \/ /\ FracLess(lowest_value, requirement)
       /\ FracLess(requirement, get_utilization(task, prev[1]))

\* find_second_core without the test of line 163: allocated cores are not
\* passed over
find_second_core_among_all(task, allocated) ==
    CHOOSE result \in
        {LET min_core[k \in 0..core_count(task)] ==
                 IF k = 0 THEN None
                 ELSE LET core == k - 1
                          requirement == get_utilization(task, core)
                      IN  CHOOSE r \in
                              {IF IsSecondLowest(task, requirement,
                                                 lowest_value, prev)
                               THEN <<core>> ELSE prev :
                               prev \in {min_core[k - 1]}} : TRUE
         IN  min_core[core_count(task)] :
         lowest_value \in {FracMin(get_utilizations(task))}} : TRUE

\* min_core[k] is <<core>> or None after the first k cores; min_value is the
\* utilization of that core.
find_second_core(task, allocated) ==
    CHOOSE result \in
        {LET min_core[k \in 0..core_count(task)] ==
                 IF k = 0 THEN None
                 ELSE LET core == k - 1
                          requirement == get_utilization(task, core)
                      IN  CHOOSE r \in
                              {IF /\ ~InList(core, allocated)
                                  /\ IsSecondLowest(task, requirement,
                                                    lowest_value, prev)
                               THEN <<core>> ELSE prev :
                               prev \in {min_core[k - 1]}} : TRUE
         IN  min_core[core_count(task)] :
         lowest_value \in {FracMin(get_utilizations(task))}} : TRUE

\* find_cluster_with_core without the containment test of line 175
find_cluster_ignoring_core(cs, core) == cs

\* find_cluster_with_core returns the first cluster of the set, in the set's
\* iteration order, that contains the core: any member of this set.
find_cluster_with_core(cs, core) == {c \in cs : ClusterContains(c, core)}

average_computation_demand(task, first_core, second_core, fl) ==
    FracHalf(FracAdd(get_share(task, first_core, fl),
                     get_share(task, second_core, fl)))

\* line 243 with the comparison turned round
NewClusterFitsInverted(computation_demand, fl) ==
    FracLess(FromInt(fl), computation_demand)

\* line 243: the test for creating a new cluster
NewClusterFits(computation_demand, fl) ==
    FracLess(computation_demand, FromInt(fl))

\* line 268 with twice the slack
ExistingClusterFitsLoose(computation_demand, spare_capacity) ==
    FracLeq(computation_demand,
            FracAdd(spare_capacity, FromInt(2 * Tolerance)))

\* line 268 with the slack subtracted
ExistingClusterFitsTight(computation_demand, spare_capacity) ==
    FracLeq(computation_demand, FracSub(spare_capacity, FromInt(Tolerance)))

\* line 268: the test for accepting a task into an existing cluster
ExistingClusterFits(computation_demand, spare_capacity) ==
    FracLeq(computation_demand, FracAdd(spare_capacity, FromInt(Tolerance)))

\* the task set overwritten instead of extended
AddTaskOverwriting(c, t) == [c EXCEPT !.tasks_allocated = {t}]

\* cluster.tasks_allocated.add(task)
AddTask(c, t) == [c EXCEPT !.tasks_allocated = @ \cup {t}]

\* cluster.spare_capacity -= computation_demand
Deduct(c, computation_demand) ==
    [c EXCEPT !.spare_capacity = FracSub(@, computation_demand)]

----------------------------------------------------------------------------
(* Scheduler.construct_clusters: one action per way through one iteration  *)
(* of the allocation loop                                                  *)

\* lines 215-222: the locals of construct_clusters on entry
EnterConstructClusters ==
    /\ tasks_allocated' = <<>>
    /\ cores_allocated' = <<>>
    /\ clusters' = {}
    /\ tasks_cores_considered' = [t \in 1..Len(tasks) |-> {}]
    /\ ret' = None
    /\ iterations' = 0

UnchangedDriver == UNCHANGED <<tasks, remaining_period, time, frame_length,
                               first_run, schedule_vars>>

\* line 224 false, line 273
ReturnClusters ==
    /\ pc = "clustering"
    /\ ~(Len(tasks_allocated) < Len(tasks))
    /\ pc' = "returned"
    /\ UNCHANGED <<tasks_allocated, cores_allocated, clusters,
                   tasks_cores_considered, ret, iterations>>
    /\ UnchangedDriver

\* lines 224-230: the loop test and the selection of a candidate; without a
\* candidate the program exits at line 229
SelectCandidate ==
    /\ pc = "clustering"
    /\ Len(tasks_allocated) < Len(tasks)
    /\ ret' = task_with_lowest_share(tasks, tasks_allocated,
                                     tasks_cores_considered)
    /\ pc' = IF ret' = None THEN "infeasible" ELSE "placing"
    /\ iterations' = iterations + 1
    /\ UNCHANGED <<tasks_allocated, cores_allocated, clusters,
                   tasks_cores_considered>>
    /\ UnchangedDriver

\* line 232 and its like left out: no core is added to the considered set
ConsideredNothing(task, cores) == tasks_cores_considered

\* lines 230-232: the chosen pair and the considered set
Considered(task, cores) ==
    [tasks_cores_considered EXCEPT ![task] = @ \cup cores]

\* lines 234-238 with the assertion of line 168 failing
SecondCoreAssertionFails ==
    /\ pc = "placing"
    /\ \E r \in {ret} :
          /\ ~InList(r[2], cores_allocated)
          /\ LET task == r[1]
                 first_core == r[2]
                 allocated == Append(cores_allocated, first_core)
             IN  /\ find_second_core(tasks[task], allocated) = None
                 /\ cores_allocated' = allocated
                 /\ tasks_cores_considered' = Considered(task, {first_core})
    /\ pc' = "assertion_error"
    /\ UNCHANGED <<tasks_allocated, clusters>>
    /\ UNCHANGED <<ret, iterations>>
    /\ UnchangedDriver

\* lines 244-253: the new cluster with its first task
ClusterWithTask(first_core, second_core, fl, task, computation_demand) ==
    Deduct(AddTask(set_spare_capacity(NewCluster(first_core, second_core),
                                      FromInt(2 * fl)),
                   task),
           computation_demand)

\* lines 234-253, the test of line 243 true
CreateCluster ==
    /\ pc = "placing"
    /\ \E r \in {ret} :
          /\ ~InList(r[2], cores_allocated)
          /\ \E found \in {find_second_core(
                               tasks[r[1]], Append(cores_allocated, r[2]))} :
                /\ found # None
                /\ \E computation_demand \in
                       {average_computation_demand(tasks[r[1]], r[2],
                                                   found[1], frame_length)} :
                      LET task == r[1]
                          first_core == r[2]
                          second_core == found[1]
                      IN  /\ NewClusterFits(computation_demand, frame_length)
                          /\ tasks_cores_considered' =
                                 Considered(task, {first_core, second_core})
                          /\ IF ClusterInitOk(first_core, second_core)
                             THEN /\ cores_allocated' =
                                         cores_allocated
                                             \o <<first_core, second_core>>
                                  /\ clusters' =
                                         ClustersAdd(
                                             clusters,
                                             ClusterWithTask(
                                                 first_core, second_core,
                                                 frame_length, task,
                                                 computation_demand))
                                  /\ tasks_allocated' =
                                         Append(tasks_allocated, task)
                                  /\ pc' = "clustering"
                             ELSE /\ cores_allocated' =
                                         Append(cores_allocated, first_core)
                                  /\ UNCHANGED <<clusters, tasks_allocated>>
                                  /\ pc' = "assertion_error"
    /\ UNCHANGED <<ret, iterations>>
    /\ UnchangedDriver

\* lines 234-243, the test of line 243 false
RejectNewCluster ==
    /\ pc = "placing"
    /\ \E r \in {ret} :
          /\ ~InList(r[2], cores_allocated)
          /\ \E found \in {find_second_core(
                               tasks[r[1]], Append(cores_allocated, r[2]))} :
                /\ found # None
                /\ ~NewClusterFits(
                        average_computation_demand(tasks[r[1]], r[2],
                                                   found[1], frame_length),
                        frame_length)
                /\ cores_allocated' = Append(cores_allocated, r[2])
                /\ tasks_cores_considered' =
                       Considered(r[1], {r[2], found[1]})
    /\ pc' = "clustering"
    /\ UNCHANGED <<tasks_allocated, clusters>>
    /\ UNCHANGED <<ret, iterations>>
    /\ UnchangedDriver

\* lines 255-258 with find_cluster_with_core raising (line 178)
ClusterNotFound ==
    /\ pc = "placing"
    /\ \E r \in {ret} :
          /\ InList(r[2], cores_allocated)
          /\ find_cluster_with_core(clusters, r[2]) = {}
          /\ tasks_cores_considered' = Considered(r[1], {r[2]})
    /\ pc' = "not_found"
    /\ UNCHANGED <<tasks_allocated, cores_allocated, clusters>>
    /\ UNCHANGED <<ret, iterations>>
    /\ UnchangedDriver

\* lines 255-271, the test of line 268 true
AcceptIntoCluster ==
    /\ pc = "placing"
    /\ \E r \in {ret} :
          /\ InList(r[2], cores_allocated)
          /\ \E cluster \in find_cluster_with_core(clusters, r[2]) :
             \E computation_demand \in
                    {average_computation_demand(
                         tasks[r[1]], cluster.first_core,
                         cluster.second_core, frame_length)} :
                /\ ExistingClusterFits(computation_demand,
                                       cluster.spare_capacity)
                /\ tasks_cores_considered' =
                       Considered(r[1], {r[2], cluster.first_core,
                                         cluster.second_core})
                /\ clusters' =
                       (clusters \ {cluster}) \cup
                       {Deduct(AddTask(cluster, r[1]), computation_demand)}
                /\ tasks_allocated' = Append(tasks_allocated, r[1])
    /\ pc' = "clustering"
    /\ UNCHANGED cores_allocated
    /\ UNCHANGED <<ret, iterations>>
    /\ UnchangedDriver

\* lines 255-268, the test of line 268 false
RejectFromCluster ==
    /\ pc = "placing"
    /\ \E r \in {ret} :
          /\ InList(r[2], cores_allocated)
          /\ \E cluster \in find_cluster_with_core(clusters, r[2]) :
                /\ ~ExistingClusterFits(
                        average_computation_demand(
                            tasks[r[1]], cluster.first_core,
                            cluster.second_core, frame_length),
                        cluster.spare_capacity)
                /\ tasks_cores_considered' =
                       Considered(r[1], {r[2], cluster.first_core,
                                         cluster.second_core})
    /\ pc' = "clustering"
    /\ UNCHANGED <<tasks_allocated, cores_allocated, clusters>>
    /\ UNCHANGED <<ret, iterations>>
    /\ UnchangedDriver

ConstructClustersStep ==
    \/ ReturnClusters
    \/ SelectCandidate
    \/ SecondCoreAssertionFails
    \/ CreateCluster
    \/ RejectNewCluster
    \/ ClusterNotFound
    \/ AcceptIntoCluster
    \/ RejectFromCluster

----------------------------------------------------------------------------
(* construct_clusters called on a task list and a frame length *)

TaskChoices(core_counts, periods) ==
    UNION {[exec : ExecChoices, period : periods,
            rates : [1..n -> RateChoices]] : n \in core_counts}

SameCoreCount(ts) ==
    \A i, j \in 1..Len(ts) : core_count(ts[i]) = core_count(ts[j])

TaskLists(core_counts, periods) ==
    {ts \in UNION {[1..n -> TaskChoices(core_counts, periods)] :
                       n \in 1..MaxTasks} : SameCoreCount(ts)}

\* The task lists of Scenario A and Scenario B, by utilization vector:
\* [0.2, 0.5], [0.3, 0.1], [0.4, 0.4] and, for B, [0.9, 0.9]
ScenarioATasks ==
    <<[exec |-> 1, period |-> 1,  rates |-> <<5, 2>>],
      [exec |-> 3, period |-> 10, rates |-> <<1, 3>>],
      [exec |-> 2, period |-> 5,  rates |-> <<1, 1>>]>>

ScenarioBTasks ==
    Append(ScenarioATasks, [exec |-> 9, period |-> 10, rates |-> <<1, 1>>])

\* A task of utilizations [0.5, 2], which no frame_length lets form a
\* cluster, before a task of utilizations [0.5, 0.5], which fits one
RejectionTasks ==
    <<[exec |-> 2, period |-> 1, rates |-> <<4, 1>>],
      [exec |-> 2, period |-> 1, rates |-> <<4, 4>>]>>

\* Four-core task lists long enough for two clusters and a further task:
\* tasks of utilization 1 or 1/2 per core, and one task of utilization 75
SampleRates ==
    {r \in [1..4 -> RateChoices] : Cardinality({i \in 1..4 : r[i] = 2}) = 2}
        \cup {[i \in 1..4 |-> 1]}

SampleTasks ==
    [exec : {1}, period : {1}, rates : SampleRates]
        \cup {[exec |-> 150, period |-> 1, rates |-> [i \in 1..4 |-> 2]]}

SampleLists == UNION {[1..n -> SampleTasks] : n \in 1..(MaxTasks + 1)}

\* construct_schedule of process.py is not running
ScheduleIdle ==
    /\ rem_cap = <<>>
    /\ unvisited = {}
    /\ schedule_cluster = None
    /\ tasks_sorted = <<>>
    /\ assigned = {}

\* construct_clusters(task_list, frame_length) about to run
InitCall(task_lists) ==
    /\ tasks \in task_lists
    /\ frame_length \in FrameChoices
    /\ remaining_period = [t \in 1..Len(tasks) |-> tasks[t].period]
    /\ time = 0
    /\ tasks_allocated = <<>>
    /\ cores_allocated = <<>>
    /\ clusters = {}
    /\ tasks_cores_considered = [t \in 1..Len(tasks) |-> {}]
    /\ ret = None
    /\ iterations = 0
    /\ pc = "clustering"
    /\ first_run = None
    /\ ScheduleIdle

InitClusters ==
    InitCall(TaskLists(CoreCounts, PeriodChoices) \cup SampleLists
                 \cup {ScenarioATasks, ScenarioBTasks, RejectionTasks})

NextClusters == ConstructClustersStep

SpecClusters == InitClusters /\ [][NextClusters]_vars

----------------------------------------------------------------------------
(* Two executions of construct_clusters on the same input, one after the   *)
(* other                                                                   *)

Stopped == pc \in {"returned", "infeasible", "assertion_error", "not_found"}

Outcome == [pc |-> pc, clusters |-> clusters]

SecondExecution ==
    /\ Stopped
    /\ first_run = None
    /\ first_run' = Outcome
    /\ EnterConstructClusters
    /\ pc' = "clustering"
    /\ UNCHANGED <<tasks, remaining_period, time, frame_length,
                   schedule_vars>>

InitTwoRuns ==
    InitCall(TaskLists({2, 3}, PeriodChoices) \cup SampleLists
                 \cup {ScenarioATasks, ScenarioBTasks})

NextTwoRuns == ConstructClustersStep \/ SecondExecution

SpecTwoRuns == InitTwoRuns /\ [][NextTwoRuns]_vars

----------------------------------------------------------------------------
(* Scheduler.ceat: the frame loop *)

\* max() in the place of min()
MaxOf(list) ==
    CHOOSE m \in {list[i] : i \in 1..Len(list)} :
        \A i \in 1..Len(list) : m >= list[i]

\* min() of a non-empty list of numbers
MinOf(list) ==
    CHOOSE m \in {list[i] : i \in 1..Len(list)} :
        \A i \in 1..Len(list) : m <= list[i]

\* line 192 true, line 194
CeatFrameLength ==
    /\ pc = "ceat_loop"
    /\ time < TOTAL_TIME
    /\ frame_length' = MinOf(remaining_period)
    /\ pc' = "ceat_reset"
    /\ UNCHANGED <<tasks, remaining_period, time, tasks_allocated,
                   cores_allocated, clusters, tasks_cores_considered, ret,
                   iterations, first_run, schedule_vars>>

\* line 192 false
CeatHorizon ==
    /\ pc = "ceat_loop"
    /\ ~(time < TOTAL_TIME)
    /\ pc' = "finished"
    /\ UNCHANGED <<tasks, remaining_period, time, frame_length,
                   tasks_allocated, cores_allocated, clusters,
                   tasks_cores_considered, ret, iterations, first_run,
                   schedule_vars>>

\* lines 195-198 and the entry of construct_clusters
CeatReset ==
    /\ pc = "ceat_reset"
    /\ remaining_period' =
           [t \in 1..Len(tasks) |->
                IF remaining_period[t] = 0 THEN tasks[t].period
                                           ELSE remaining_period[t]]
    /\ EnterConstructClusters
    /\ pc' = "clustering"
    /\ UNCHANGED <<tasks, time, frame_length, first_run, schedule_vars>>

\* lines 200-210, after construct_clusters returned
CeatEndFrame ==
    /\ pc = "returned"
    /\ remaining_period' =
           [t \in 1..Len(tasks) |-> remaining_period[t] - frame_length]
    /\ time' = time + frame_length
    /\ pc' = "ceat_loop"
    /\ UNCHANGED <<tasks, frame_length, tasks_allocated, cores_allocated,
                   clusters, tasks_cores_considered, ret, iterations,
                   first_run, schedule_vars>>

\* The runs of the frame loop: two cores, and periods that end the run
\* after one frame (TOTAL_TIME) or leave it in the loop (1, 2)
DriverCoreCounts == {2}

DriverPeriodChoices == {1, 2, TOTAL_TIME}

Init ==
    /\ tasks \in TaskLists(DriverCoreCounts, DriverPeriodChoices)
    /\ remaining_period = [t \in 1..Len(tasks) |-> tasks[t].period]
    /\ time = 0
    /\ frame_length = 0
    /\ tasks_allocated = <<>>
    /\ cores_allocated = <<>>
    /\ clusters = {}
    /\ tasks_cores_considered = [t \in 1..Len(tasks) |-> {}]
    /\ ret = None
    /\ iterations = 0
    /\ pc = "ceat_loop"
    /\ first_run = None
    /\ ScheduleIdle

Next ==
    \/ CeatFrameLength
    \/ CeatHorizon
    \/ CeatReset
    \/ ConstructClustersStep
    \/ CeatEndFrame

Spec == Init /\ [][Next]_vars

----------------------------------------------------------------------------
(* process.py, the two-core draft: class Task, class Cluster and           *)
(* Scheduler.construct_schedule.  A task is [execs, period], a cluster is  *)
(* [core1, core2, tasks, spare_capacity] with core ids for cores and       *)
(* positions in the task list for tasks.                                   *)

\* process.py line 5
NO_OF_CORES == 2

\* x / y, for y > 0
FracDiv(x, y) == Frac(x.n * y.d, x.d * y.n)

\* Task.get_utilizations of process.py
process_get_utilizations(task) ==
    [i \in 1..Len(task.execs) |-> Frac(task.execs[i], task.period)]

\* Task.get_shares of process.py: utilization * frame_size
process_get_shares(task, frame_size) ==
    [i \in 1..Len(task.execs) |->
         Frac(task.execs[i] * frame_size, task.period)]

\* Cluster.__init__ of process.py, called with core1 # core2 (line 25)
ProcessCluster(core1, core2, current_frame) ==
    [core1 |-> core1, core2 |-> core2, tasks |-> {},
     spare_capacity |-> 2 * current_frame]

\* the key of the sort of lines 218-222
SortKey(c, t) ==
    FracDiv(process_get_utilizations(tasks[t])[c.core1 + 1],
            process_get_utilizations(tasks[t])[c.core2 + 1])

\* the orders in which the members of a set can be listed
Orders(S) ==
    {order \in [1..Cardinality(S) -> S] :
         \A i, j \in 1..Cardinality(S) : i # j => order[i] # order[j]}

\* sorted(tasks, key) of lines 218-222: a stable sort of the order in which
\* the set cluster.tasks is iterated.  Task objects hash by address, so that
\* order is any order: the results are the orders ascending in the key.
sorted(c) ==
    {order \in Orders(c.tasks) :
         \A i \in 1..(Len(order) - 1) :
             FracLeq(SortKey(c, order[i]), SortKey(c, order[i + 1]))}

Front(list) == list[1]

Back(list) == list[Len(list)]

PopFront(list) == SubSeq(list, 2, Len(list))

PopBack(list) == SubSeq(list, 1, Len(list) - 1)

\* rem_cap[core_id] -= share
DeductShare(cap, core_id, share) ==
    [cap EXCEPT ![core_id + 1] = FracSub(@, share)]

UnchangedClustering ==
    UNCHANGED <<tasks, frame_length, clusters, remaining_period, time,
                tasks_allocated, cores_allocated, tasks_cores_considered,
                ret, iterations>>

\* line 211
EnterConstructSchedule ==
    /\ pc = "construct_schedule"
    /\ rem_cap' = [i \in 1..NO_OF_CORES |-> FromInt(frame_length)]
    /\ unvisited' = clusters
    /\ pc' = "for_cluster"
    /\ UNCHANGED <<schedule_cluster, tasks_sorted, assigned, first_run>>
    /\ UnchangedClustering

\* lines 213-222: the next cluster of the set and its tasks, sorted
VisitCluster ==
    /\ pc = "for_cluster"
    /\ \E c \in unvisited :
          /\ schedule_cluster' = c
          /\ unvisited' = unvisited \ {c}
          /\ tasks_sorted' \in sorted(c)
    /\ pc' = "core1_pass"
    /\ UNCHANGED <<rem_cap, assigned, first_run>>
    /\ UnchangedClustering

\* the loop test of lines 224-229 without the comparison of utilizations
Core1ContinuesUnguarded ==
    /\ tasks_sorted # <<>>
    /\ FracLess(FromInt(0), rem_cap[schedule_cluster.core1 + 1])

\* the loop test of lines 224-229
Core1Continues ==
    /\ tasks_sorted # <<>>
    /\ FracLess(FromInt(0), rem_cap[schedule_cluster.core1 + 1])
    /\ FracLeq(process_get_utilizations(tasks[Front(tasks_sorted)])
                   [schedule_cluster.core1 + 1],
               process_get_utilizations(tasks[Front(tasks_sorted)])
                   [schedule_cluster.core2 + 1])

\* lines 224-232: one iteration of the first loop
TakeCore1 ==
    /\ pc = "core1_pass"
    /\ Core1Continues
    /\ LET task == Front(tasks_sorted)
           core1 == schedule_cluster.core1
       IN  /\ tasks_sorted' = PopFront(tasks_sorted)
           /\ rem_cap' =
                  DeductShare(rem_cap, core1,
                              process_get_shares(tasks[task], frame_length)
                                  [core1 + 1])
           /\ assigned' = assigned \cup {<<task, core1>>}
    /\ UNCHANGED <<pc, unvisited, schedule_cluster, first_run>>
    /\ UnchangedClustering

\* line 224 false
EndCore1 ==
    /\ pc = "core1_pass"
    /\ ~Core1Continues
    /\ pc' = "core2_pass"
    /\ UNCHANGED <<schedule_vars, first_run>>
    /\ UnchangedClustering

\* the loop test of line 234
Core2Continues ==
    /\ tasks_sorted # <<>>
    /\ FracLess(FromInt(0), rem_cap[schedule_cluster.core2 + 1])

\* lines 234-237: one iteration of the second loop
TakeCore2 ==
    /\ pc = "core2_pass"
    /\ Core2Continues
    /\ LET task == Back(tasks_sorted)
           core2 == schedule_cluster.core2
       IN  /\ tasks_sorted' = PopBack(tasks_sorted)
           /\ rem_cap' =
                  DeductShare(rem_cap, core2,
                              process_get_shares(tasks[task], frame_length)
                                  [core2 + 1])
           /\ assigned' = assigned \cup {<<task, core2>>}
    /\ UNCHANGED <<pc, unvisited, schedule_cluster, first_run>>
    /\ UnchangedClustering

\* line 234 false, lines 239-244: the tasks left in tasks_sorted stay
\* unassigned
EndCluster ==
    /\ pc = "core2_pass"
    /\ ~Core2Continues
    /\ pc' = "for_cluster"
    /\ UNCHANGED <<schedule_vars, first_run>>
    /\ UnchangedClustering

\* line 213 exhausted: construct_schedule returns
EndSchedule ==
    /\ pc = "for_cluster"
    /\ unvisited = {}
    /\ pc' = "scheduled"
    /\ UNCHANGED <<schedule_vars, first_run>>
    /\ UnchangedClustering

ConstructScheduleStep ==
    \/ EnterConstructSchedule
    \/ VisitCluster
    \/ TakeCore1
    \/ EndCore1
    \/ TakeCore2
    \/ EndCluster
    \/ EndSchedule

\* what an execution of construct_schedule has computed
ScheduleOutcome ==
    [assigned |-> assigned, rem_cap |-> rem_cap,
     unassigned |-> {tasks_sorted[i] : i \in 1..Len(tasks_sorted)}]

\* construct_schedule called again on the same clusters and frame size
SecondSchedule ==
    /\ pc = "scheduled"
    /\ first_run = None
    /\ first_run' = ScheduleOutcome
    /\ rem_cap' = <<>>
    /\ unvisited' = {}
    /\ schedule_cluster' = None
    /\ tasks_sorted' = <<>>
    /\ assigned' = {}
    /\ pc' = "construct_schedule"
    /\ UnchangedClustering

\* Tasks cheaper on core 0, cheaper on core 1 and equally dear on both, of
\* utilization 1/2, 1 or 2 on a core
ScheduleExecChoices == {<<1, 2>>, <<2, 1>>, <<1, 1>>}

SchedulePeriodChoices == {1, 2}

ScheduleFrameChoices == {1, 2}

ScheduleTasks ==
    [execs : ScheduleExecChoices, period : SchedulePeriodChoices]

ScheduleTaskLists == UNION {[1..n -> ScheduleTasks] : n \in 1..(MaxTasks + 1)}

\* The cluster sets over NO_OF_CORES = 2 cores: one cluster of the two
\* cores, in either order, holding the tasks of the list
ClusterSets(ts, frame_size) ==
    {{[ProcessCluster(core1, core2, frame_size)
           EXCEPT !.tasks = 1..Len(ts)]} :
         <<core1, core2>> \in {p \in (0..(NO_OF_CORES - 1))
                                      \X (0..(NO_OF_CORES - 1)) :
                                   p[1] # p[2]}}

\* construct_schedule(clusters, frame_size) about to run
InitSchedule ==
    /\ tasks \in ScheduleTaskLists
    /\ frame_length \in ScheduleFrameChoices
    /\ clusters \in ClusterSets(tasks, frame_length)
    /\ remaining_period = [t \in 1..Len(tasks) |-> tasks[t].period]
    /\ time = 0
    /\ tasks_allocated = <<>>
    /\ cores_allocated = <<>>
    /\ tasks_cores_considered = [t \in 1..Len(tasks) |-> {}]
    /\ ret = None
    /\ iterations = 0
    /\ pc = "construct_schedule"
    /\ first_run = None
    /\ ScheduleIdle

NextSchedule == ConstructScheduleStep \/ SecondSchedule

SpecSchedule == InitSchedule /\ [][NextSchedule]_vars

----------------------------------------------------------------------------
(* Properties of construct_clusters *)

InScenarioA == tasks = ScenarioATasks /\ frame_length = 10

InScenarioB == tasks = ScenarioBTasks /\ frame_length = 10

ClustersOfTask(t) == {c \in clusters : t \in c.tasks_allocated}

\* The sum, over the tasks of the set ts, of the average computation demand
\* over the two cores of cluster c
RECURSIVE DemandOf(_, _)
DemandOf(c, ts) ==
    IF ts = {} THEN FromInt(0)
    ELSE LET t == CHOOSE x \in ts : TRUE
         IN  FracAdd(average_computation_demand(tasks[t], c.first_core,
                                                c.second_core, frame_length),
                     DemandOf(c, ts \ {t}))

\* C1 (Partition): when construct_clusters has returned for a frame_length
\* > 0, every task of the list is in the tasks_allocated set of exactly one
\* cluster.
C1_Partition ==
    (pc = "returned" /\ frame_length > 0) =>
        \A t \in 1..Len(tasks) : Cardinality(ClustersOfTask(t)) = 1

\* construct_clusters returned two clusters, one of them holding two tasks
C1_Witness ==
    /\ pc = "returned"
    /\ frame_length > 0
    /\ Cardinality(clusters) = 2
    /\ \E c \in clusters : Cardinality(c.tasks_allocated) = 2

\* C2 (Capacity): in every state of construct_clusters, the demands of the
\* tasks accepted into a cluster sum to at most 2*frame_length + Tolerance,
\* and the cluster's spare_capacity is 2*frame_length minus that sum, hence
\* at least -Tolerance.
C2_Capacity ==
    \A c \in clusters :
        /\ FracLeq(DemandOf(c, c.tasks_allocated),
                   FromInt(2 * frame_length + Tolerance))
        /\ c.spare_capacity =
               FracSub(FromInt(2 * frame_length),
                       DemandOf(c, c.tasks_allocated))
        /\ FracLeq(FromInt(-Tolerance), c.spare_capacity)

\* a cluster whose accepted demand exceeds 2*frame_length, within the slack
C2_Witness ==
    \E c \in clusters :
        /\ Cardinality(c.tasks_allocated) >= 2
        /\ FracLess(c.spare_capacity, FromInt(0))

\* C6 (Cluster Constructor outcomes): construct_clusters ends either by
\* returning a cluster set or by the infeasible-task-set exit; no assertion
\* fails and no exception is raised.
C6_TwoOutcomes ==
    (Stopped /\ frame_length > 0) => pc \in {"returned", "infeasible"}

\* C7 (NotFound never occurs): whenever the chosen core is in
\* cores_allocated, so that the else branch runs, some cluster of the set
\* built so far contains it.
C7_ClusterOfAllocatedCore ==
    (pc = "placing" /\ frame_length > 0 /\ InList(ret[2], cores_allocated))
        => find_cluster_with_core(clusters, ret[2]) # {}

\* C8 (Scenario B), as claimed: the run of Scenario B ends with the
\* infeasible-task-set exit and returns no cluster set.
C8_ScenarioBInfeasible == (InScenarioB /\ Stopped) => pc = "infeasible"

\* C8 (Scenario B), amended: the run of Scenario B returns one cluster over
\* cores {0, 1} holding all four tasks, with spare capacity 1.5: the total
\* average demand is 18.5, below 2*frame_length.
C8_ScenarioBReturns ==
    (InScenarioB /\ Stopped) =>
        /\ pc = "returned"
        /\ clusters = {[first_core |-> 0, second_core |-> 1,
                        tasks_allocated |-> {1, 2, 3, 4},
                        spare_capacity |-> Frac(3, 2)]}
        /\ \A c \in clusters :
               DemandOf(c, c.tasks_allocated) = Frac(37, 2)

C8_Witness == InScenarioB /\ pc = "returned"

\* C9 (Scenario A): the run of Scenario A returns exactly one cluster, over
\* cores {0, 1}, holding the three tasks, and the demand deducted from its
\* spare capacity is below 20.
C9_ScenarioA ==
    (InScenarioA /\ Stopped) =>
        /\ pc = "returned"
        /\ Cardinality(clusters) = 1
        /\ \A c \in clusters :
               /\ c.first_core = 0
               /\ c.second_core = 1
               /\ c.tasks_allocated = {1, 2, 3}
               /\ FracLess(FracSub(FromInt(2 * frame_length),
                                   c.spare_capacity),
                           FromInt(20))
               /\ FracLess(DemandOf(c, c.tasks_allocated), FromInt(20))

C9_Witness == InScenarioA /\ pc = "returned"

\* C10 (Determinism of clustering): a second execution of construct_clusters
\* on the same task list and frame_length ends as the first did: the same
\* way of stopping and the same clusters (core pair, task set and spare
\* capacity), whichever matching cluster find_cluster_with_core meets first.
C10_SameOutcome == (first_run # None /\ Stopped) => Outcome = first_run

\* the second execution returned two clusters, and its last task joined an
\* existing cluster when both clusters were in the set
C10_Witness ==
    /\ first_run # None
    /\ pc = "returned"
    /\ Cardinality(clusters) = 2
    /\ Cardinality(ClustersOfTask(tasks_allocated[Len(tasks_allocated)])) = 1
    /\ \A c \in ClustersOfTask(tasks_allocated[Len(tasks_allocated)]) :
           Cardinality(c.tasks_allocated) >= 2

----------------------------------------------------------------------------
(* Properties of the Cluster type and of the steps of construct_clusters *)

CoreIds == 0..(core_count(tasks[1]) - 1)

\* the first core of the pending candidate is not yet allocated (line 234)
AtNewClusterBranch ==
    pc = "placing" /\ ~InList(ret[2], cores_allocated)

\* the first core of the pending candidate is allocated (line 255)
AtExistingClusterBranch ==
    pc = "placing" /\ InList(ret[2], cores_allocated)

\* the second core that lines 235-238 find for the pending candidate
SecondCoreOfCandidate ==
    find_second_core(tasks[ret[1]], Append(cores_allocated, ret[2]))

\* (share on core a + share on core b) / 2, as one fraction
HalfSumOfShares(t, a, b) ==
    Frac(tasks[t].exec * frame_length
             * (tasks[t].rates[a + 1] + tasks[t].rates[b + 1]),
         2 * tasks[t].period * tasks[t].rates[a + 1] * tasks[t].rates[b + 1])

\* C13 (Cluster identity is order-independent): for any two distinct core
\* ids a and b, Cluster(a, b) and Cluster(b, a) are equal and have the same
\* hash, store the lower id as first_core and contain exactly a and b; the
\* constructor rejects two identical core ids; and every cluster of the set
\* is stored that way.  The core ids are those of the task list
\* construct_clusters is called on.
C13_ClusterIdentity ==
    /\ (pc = "clustering" /\ ret = None) =>
        /\ \A a \in CoreIds : ~ClusterInitOk(a, a)
        /\ \A a \in CoreIds : \A b \in {x \in CoreIds : x > a} :
               /\ ClusterInitOk(a, b) /\ ClusterInitOk(b, a)
               /\ ClusterEq(NewCluster(a, b), NewCluster(b, a))
               /\ ClusterEq(NewCluster(b, a), NewCluster(a, b))
               /\ ClusterHash(NewCluster(a, b)) = ClusterHash(NewCluster(b, a))
               /\ NewCluster(a, b).first_core = a
               /\ NewCluster(b, a).first_core = a
               /\ \A core \in CoreIds :
                      /\ ClusterContains(NewCluster(a, b), core)
                             <=> core \in {a, b}
                      /\ ClusterContains(NewCluster(b, a), core)
                             <=> core \in {a, b}
    /\ \A c \in clusters : c.first_core < c.second_core

\* a cluster was just constructed from (first_core, second_core) with
\* first_core the higher id
C13_Witness ==
    /\ pc = "clustering"
    /\ ret # None
    /\ \E c \in clusters :
           /\ c.tasks_allocated = {ret[1]}
           /\ c.second_core = ret[2]

\* C14 (Existing-cluster acceptance uses no slack): a task is accepted into
\* the cluster of its chosen core if and only if its average demand over the
\* cluster's cores is at most the cluster's spare_capacity, and no cluster's
\* spare_capacity becomes negative.
C14_NoSlack ==
    [][AtExistingClusterBranch =>
           /\ \A cluster \in find_cluster_with_core(clusters, ret[2]) :
                  (tasks_allocated' # tasks_allocated)
                      <=> FracLeq(HalfSumOfShares(ret[1], cluster.first_core,
                                                  cluster.second_core),
                                  cluster.spare_capacity)
           /\ \A c \in clusters' : FracLeq(FromInt(0), c.spare_capacity)]_vars

\* the cores that are free when find_second_core runs for the candidate
FreeCores == {core \in CoreIds : ~InList(core, cores_allocated)} \ {ret[2]}

\* the free cores whose utilization exceeds the task's minimum utilization
FreeCoresAboveMinimum ==
    {core \in FreeCores :
         FracLess(FracMin(get_utilizations(tasks[ret[1]])),
                  get_utilization(tasks[ret[1]], core))}

\* C15 (Second-core selection): with at least one core free,
\* find_second_core returns a free core; when some free core has a
\* utilization strictly above the task's minimum, it returns the one of
\* smallest utilization among those, the lowest index on ties.
C15_SecondCore ==
    (AtNewClusterBranch /\ FreeCores # {}) =>
        /\ SecondCoreOfCandidate # None
        /\ SecondCoreOfCandidate[1] \in FreeCores
        /\ FreeCoresAboveMinimum # {} =>
               /\ SecondCoreOfCandidate[1] \in FreeCoresAboveMinimum
               /\ \A core \in FreeCoresAboveMinimum :
                      LET u == get_utilization(tasks[ret[1]], core)
                          v == get_utilization(tasks[ret[1]],
                                               SecondCoreOfCandidate[1])
                      IN  /\ FracLeq(v, u)
                          /\ u = v => SecondCoreOfCandidate[1] <= core

\* C16 (Effect of a rejection): a step of construct_clusters that places no
\* task adds exactly the chosen core to the cores considered for the task
\* and changes neither the allocated cores and tasks nor the clusters.
C16_RejectionEffect ==
    [][(pc = "placing" /\ pc' = "clustering"
            /\ tasks_allocated' = tasks_allocated) =>
           /\ tasks_cores_considered' = Considered(ret[1], {ret[2]})
           /\ cores_allocated' = cores_allocated
           /\ clusters' = clusters]_vars

\* the pairs task_with_lowest_share may choose from
Candidates ==
    {p \in (1..Len(tasks)) \X CoreIds :
         /\ ~InList(p[1], tasks_allocated)
         /\ p[2] \notin tasks_cores_considered[p[1]]}

ScanBefore(p, q) == p[1] < q[1] \/ (p[1] = q[1] /\ p[2] < q[2])

\* C17 (Candidate selection): the pair returned by task_with_lowest_share is
\* a candidate of minimum utilization, the first in scan order among the
\* candidates of that utilization; the run takes the infeasible exit exactly
\* when there is no candidate.
C17_CandidateSelection ==
    /\ pc = "placing" =>
           /\ ret \in Candidates
           /\ \A u \in {get_utilization(tasks[ret[1]], ret[2])} :
              \A q \in Candidates :
              \A v \in {get_utilization(tasks[q[1]], q[2])} :
                  /\ FracLeq(u, v)
                  /\ (u = v /\ q # ret) => ScanBefore(ret, q)
    /\ pc = "infeasible" => (ret = None /\ Candidates = {})

\* a candidate was chosen among several of the same utilization, after
\* some core had been considered
C17_Witness ==
    /\ pc = "placing"
    /\ \E t \in 1..Len(tasks) : tasks_cores_considered[t] # {}
    /\ \E q \in Candidates :
           /\ q # ret
           /\ get_utilization(tasks[q[1]], q[2])
                  = get_utilization(tasks[ret[1]], ret[2])

\* C18 (New-cluster acceptance): when the chosen core is in no cluster and a
\* second core is found, the cluster of the two cores is created if and only
\* if the average demand is strictly less than frame_length; the new cluster
\* holds the task alone with spare_capacity 2*frame_length minus the demand,
\* and both cores and the task are marked allocated.
C18_NewClusterAcceptance ==
    [][(/\ pc = "placing"
        /\ find_cluster_with_core(clusters, ret[2]) = {}
        /\ SecondCoreOfCandidate # None) =>
           LET first_core == ret[2]
               second_core == SecondCoreOfCandidate[1]
               demand == HalfSumOfShares(ret[1], first_core, second_core)
           IN  IF FracLess(demand, FromInt(frame_length))
               THEN /\ clusters' # clusters
                    /\ clusters' = clusters \cup
                           {[first_core |-> IF first_core < second_core
                                            THEN first_core ELSE second_core,
                             second_core |-> IF first_core < second_core
                                             THEN second_core ELSE first_core,
                             tasks_allocated |-> {ret[1]},
                             spare_capacity |->
                                 FracSub(FromInt(2 * frame_length), demand)]}
                    /\ tasks_allocated' = Append(tasks_allocated, ret[1])
                    /\ InList(first_core, cores_allocated')
                    /\ InList(second_core, cores_allocated')
               ELSE /\ clusters' = clusters
                    /\ tasks_allocated' = tasks_allocated]_vars

CoresOf(c) == {c.first_core, c.second_core}

\* C21 (Clusters are disjoint core pairs): in every state of
\* construct_clusters each cluster pairs two distinct cores and no core is
\* in two clusters; and whenever a new cluster is about to be constructed,
\* its two cores are distinct and no cluster of the set is equal to it.
C21_DisjointCorePairs ==
    /\ \A c \in clusters : c.first_core # c.second_core
    /\ \A c, d \in clusters : c # d => CoresOf(c) \cap CoresOf(d) = {}
    /\ AtNewClusterBranch =>
           \A found \in {SecondCoreOfCandidate} :
               (/\ found # None
                /\ FracLess(HalfSumOfShares(ret[1], ret[2], found[1]),
                            FromInt(frame_length))) =>
                   /\ ClusterInitOk(ret[2], found[1])
                   /\ \A o \in clusters :
                          ~ClusterEq(NewCluster(ret[2], found[1]), o)

\* a second cluster has just been added to the set
C21_Witness ==
    /\ pc = "clustering"
    /\ ret # None
    /\ Cardinality(clusters) = 2
    /\ \E c \in clusters :
           /\ c.tasks_allocated = {ret[1]}
           /\ ret[2] \in CoresOf(c)
           /\ tasks_allocated[Len(tasks_allocated)] = ret[1]

\* the number of (task, core) pairs in the considered sets
ConsideredPairs ==
    LET count[t \in 0..Len(tasks)] ==
            IF t = 0 THEN 0
            ELSE count[t - 1] + Cardinality(tasks_cores_considered[t])
    IN  count[Len(tasks)]

\* the body of the loop has been entered and has not yet reached line 232
InLoopBody == pc \in {"placing", "infeasible"}

\* every completed iteration has added a pair of its own to the considered
\* sets, the sets hold no more than (tasks) x (cores) pairs, and only the
\* failing selection can come after that many iterations
IterationsBounded ==
    /\ iterations <= ConsideredPairs + (IF InLoopBody THEN 1 ELSE 0)
    /\ ConsideredPairs <= Len(tasks) * core_count(tasks[1])
    /\ iterations <= Len(tasks) * core_count(tasks[1]) + 1
    /\ pc # "infeasible" => iterations <= Len(tasks) * core_count(tasks[1])

\* C22: the allocation loop of construct_clusters terminates: every iteration
\* either allocates one more task or adds at least one new core to the
\* considered set of a task that stays unallocated, so the loop has entered
\* its body at most (number of tasks) x (number of cores) times, plus once
\* for the selection that fails
C22_LoopTerminates ==
    [][/\ pc = "placing" =>
              \/ tasks_allocated' = Append(tasks_allocated, ret[1])
              \/ /\ ~InList(ret[1], tasks_allocated')
                 /\ tasks_cores_considered[ret[1]] #
                        tasks_cores_considered'[ret[1]]
                 /\ tasks_cores_considered[ret[1]] \subseteq
                        tasks_cores_considered'[ret[1]]
       /\ IterationsBounded']_vars

\* a run that ends by the failing selection after rejections: more iterations
\* than tasks, the last of them finding every core of every task considered
C22_Witness ==
    /\ pc = "infeasible"
    /\ iterations > Len(tasks)
    /\ Len(tasks_allocated) < Len(tasks)
    /\ ConsideredPairs = Len(tasks) * core_count(tasks[1])

----------------------------------------------------------------------------
(* Properties of construct_schedule *)

\* the tasks of cluster c that are strictly cheaper on its core1
CheaperOnCore1(c) ==
    {t \in c.tasks :
         FracLess(process_get_utilizations(tasks[t])[c.core1 + 1],
                  process_get_utilizations(tasks[t])[c.core2 + 1])}

\* the tasks of cluster c that are strictly cheaper on its core2
CheaperOnCore2(c) ==
    {t \in c.tasks :
         FracLess(process_get_utilizations(tasks[t])[c.core2 + 1],
                  process_get_utilizations(tasks[t])[c.core1 + 1])}

ShareOf(t, core_id) == process_get_shares(tasks[t], frame_length)[core_id + 1]

\* the sum of the shares, on the core, of the tasks of the set ts
RECURSIVE SharesOn(_, _)
SharesOn(core_id, ts) ==
    IF ts = {} THEN FromInt(0)
    ELSE LET t == CHOOSE x \in ts : TRUE
         IN  FracAdd(ShareOf(t, core_id), SharesOn(core_id, ts \ {t}))

TasksOn(core_id) == {p[1] : p \in {q \in assigned : q[2] = core_id}}

Unassigned == {tasks_sorted[i] : i \in 1..Len(tasks_sorted)}

\* C11 (Determinism of intra-cluster schedules): a second execution of
\* construct_schedule on the same clusters and frame size ends with every
\* task on the same core, the same tasks unplaced and the same remaining
\* capacities as the first, in whatever order the task sets are iterated.
C11_SameSchedule ==
    (first_run # None /\ pc = "scheduled") => ScheduleOutcome = first_run

\* C12 (Scenario C, generalised): a task strictly cheaper on core2 is never
\* taken in the core1 pass; and when a cluster holds two or more tasks
\* cheaper on core1 and one task C cheaper on core2, C ends on core2, with
\* its share deducted from core2's capacity, and is not left unassigned.
C12_ScenarioC ==
    \A c \in clusters :
        /\ \A t \in CheaperOnCore2(c) : <<t, c.core1>> \notin assigned
        /\ (/\ pc = "scheduled"
            /\ Cardinality(CheaperOnCore1(c)) >= 2
            /\ Cardinality(CheaperOnCore2(c)) = 1
            /\ CheaperOnCore1(c) \cup CheaperOnCore2(c) = c.tasks) =>
               \A t \in CheaperOnCore2(c) :
                   /\ <<t, c.core2>> \in assigned
                   /\ t \notin Unassigned
                   /\ t \in TasksOn(c.core2)
                   /\ rem_cap[c.core2 + 1] =
                          FracSub(FromInt(frame_length),
                                  SharesOn(c.core2, TasksOn(c.core2)))

\* Scenario C: tasks A and B have used up core1, C is on core2
C12_Witness ==
    /\ pc = "scheduled"
    /\ \E c \in clusters :
           /\ Cardinality(CheaperOnCore1(c)) = 2
           /\ Cardinality(CheaperOnCore2(c)) = 1
           /\ Cardinality(c.tasks) = 3
           /\ TasksOn(c.core1) = CheaperOnCore1(c)
           /\ rem_cap[c.core1 + 1] = FromInt(0)
           /\ TasksOn(c.core2) = CheaperOnCore2(c)

\* C19 (Per-core capacity): each core starts with remaining capacity
\* frame_size, the shares of the tasks placed on a core sum to at most
\* frame_size, and no remaining capacity is negative.
C19_PerCoreCapacity ==
    rem_cap # <<>> =>
        \A core_id \in 0..(NO_OF_CORES - 1) :
            /\ assigned = {} => rem_cap[core_id + 1] = FromInt(frame_length)
            /\ FracLeq(SharesOn(core_id, TasksOn(core_id)),
                       FromInt(frame_length))
            /\ FracLeq(FromInt(0), rem_cap[core_id + 1])

----------------------------------------------------------------------------
(* Properties of the frame loop *)

\* C3 (Frame monotonicity): the frame_length of every frame is the minimum
\* remaining_period at the start of the frame and is greater than 0.
C3_FrameLengthPositive ==
    pc = "ceat_reset" =>
        /\ frame_length = MinOf(remaining_period)
        /\ frame_length > 0

\* C4 (Reset correctness): when frame_length is computed, no task has a
\* remaining_period of 0: a task that reached 0 has been reset before.
C4_ResetBeforeMinimum ==
    [][CeatFrameLength =>
           \A t \in 1..Len(tasks) : remaining_period[t] # 0]_vars

\* C5 (Run termination): a run that has stopped has stopped at the horizon
\* or by the infeasible-task-set exit, never by an exception or a failed
\* assertion.
C5_StopsByHorizonOrInfeasible ==
    (pc = "finished" \/ (Stopped /\ pc # "returned"))
        => pc \in {"finished", "infeasible"}

\* construct_clusters has just been called (lines 198, 215-222)
AtCallOfConstructClusters ==
    pc = "clustering" /\ ret = None /\ tasks_allocated = <<>>

\* C20 (Remaining period tracks the next period boundary): when
\* construct_clusters is called, every task has remaining_period = period -
\* (time mod period), which lies in 1..period; and remaining_period is
\* negative in no state.
C20_RemainingPeriod ==
    /\ AtCallOfConstructClusters =>
           \A t \in 1..Len(tasks) :
               /\ remaining_period[t]
                      = tasks[t].period - (time % tasks[t].period)
               /\ 0 < remaining_period[t]
               /\ remaining_period[t] <= tasks[t].period
    /\ \A t \in 1..Len(tasks) : remaining_period[t] >= 0

\* construct_clusters is called in a later frame, with a task that is part
\* of the way through its period
C20_Witness ==
    /\ AtCallOfConstructClusters
    /\ time > 0
    /\ \E t \in 1..Len(tasks) :
           0 < remaining_period[t] /\ remaining_period[t] < tasks[t].period

====
